---- MODULE Spec2Model ----
(***************************************************************************)
(* blkzone: report and reset of the zones of a zoned block device          *)
(* (sys-utils/blkzone.c).  One behaviour of the model is one invocation of *)
(* the program: main dispatches to blkzone_report or blkzone_reset, which  *)
(* run their steps in program order.  The device, sysfs and the kernel are *)
(* the environment: every answer they give is drawn when the call is made. *)
(*                                                                         *)
(* uint64_t values are written as their residue modulo 2^64 in the range   *)
(* (-2^63, 2^63): a negative number r stands for 2^64 + r.  Within the     *)
(* bounds of the model only the subtraction of the clamp in blkzone_reset  *)
(* can wrap.  The -v flag only adds messages and is left out.              *)
(***************************************************************************)
EXTENDS Integers, Sequences, FiniteSets

(* ------------------------------ bounds --------------------------------- *)
MaxOffset   == 12   \* -o takes the values 0..MaxOffset
MaxLen      == 2    \* -l takes 0..MaxLen and the values around the report limits
MaxTotal    == 10   \* the device has MaxTotal - 2 or MaxTotal sectors
MaxZoneSize == 4    \* queue/chunk_sectors reads 0..MaxZoneSize
MaxReturned == 2    \* the device holds at most MaxReturned zones to report

(* ------------------------- program constants --------------------------- *)
DEF_REPORT_LEN == 4096
MAX_REPORT_LEN == 65536

type_text == << "RESERVED", "CONVENTIONAL", "SEQ_WRITE_REQUIRED",
                "SEQ_WRITE_PREFERRED" >>

condition_str == << "cv", "e0", "Oi", "Oe", "Cl",
                    "x5", "x6", "x7", "x8", "x9", "xA", "xB",
                    "ro", "fu", "OL" >>

\* ARRAY_SIZE(arr): the number of elements of a C array
ARRAY_SIZE(arr) == Len(arr)

commands == << "report", "reset" >>

(* ------------------------------ inputs --------------------------------- *)
CommandNames == {"report", "reset", "frobnicate"}
Offsets      == 0..MaxOffset
Lengths      == (0..MaxLen) \cup {DEF_REPORT_LEN, MAX_REPORT_LEN, MAX_REPORT_LEN + 1}
Totals       == {MaxTotal - 2, MaxTotal}
ChunkSectors == 0..MaxZoneSize
\* zone descriptors a device may hand back: len 0 ends the valid data; the
\* condition and type codes are bytes, in and out of the defined range
CondCodes    == {1, 15, 16}
TypeCodes    == {1, 4}
ZoneLens     == {0, 4}
Descriptors  == [len : ZoneLens, cond : CondCodes, type : TypeCodes]

RECURSIVE SeqsUpTo(_, _)
SeqsUpTo(S, n) ==
    IF n = 0 THEN { << >> }
    ELSE LET shorter == SeqsUpTo(S, n - 1)
         IN  shorter \cup { Append(s, x) : s \in { t \in shorter : Len(t) = n - 1 }, x \in S }

Min(a, b) == IF a < b THEN a ELSE b

(* --------------------------- C arithmetic ------------------------------ *)
RECURSIVE BitAnd(_, _)
BitAnd(a, b) ==
    IF a = 0 \/ b = 0 THEN 0
    ELSE (a % 2) * (b % 2) + 2 * BitAnd(a \div 2, b \div 2)

\* a & (b - 1) on unsigned operands: b - 1 is all ones when b = 0
MaskBelow(a, b) == IF b = 0 THEN a ELSE BitAnd(a, b - 1)

\* unsigned a > b on residues: a negative residue is above every other
U64Gt(a, b) ==
    IF (a < 0) = (b < 0) THEN a > b ELSE a < 0

VARIABLES
    cmdName,     \* argv[1]
    opt,         \* the parsed options: [offset, length]
    ctl,         \* struct blkzone_control: [total_sectors, secsize, offset, length]
    pc,          \* position of the program
    status,      \* "running", "EXIT_SUCCESS", "EXIT_FAILURE", "SIGSEGV"
    error,       \* the message of err()/errx(), "none" without one
    warnings,    \* number of warnx() messages
    opens,       \* successful open() calls
    closes,      \* close() calls
    zonesize,    \* blkzone_reset: zonesize
    za,          \* blkzone_reset: struct blk_zone_range
    resetCalls,  \* the BLKRESETZONE requests issued, in order
    zi,          \* blkzone_report: struct blk_zone_report [sector, nr_zones, zones]
    reportCalls, \* the BLKREPORTZONE requests issued: [sector, nr_zones]
    i,           \* blkzone_report: loop index
    reads,       \* indices of zi->zones[] read by the loop, in order
    lookups,     \* the table indices used: sequence of [cond, type]
    out          \* zone lines printed

vars == << cmdName, opt, ctl, pc, status, error, warnings, opens, closes,
           zonesize, za, resetCalls, zi, reportCalls, i, reads, lookups, out >>

Init ==
    /\ cmdName \in CommandNames
    /\ opt \in [offset : Offsets, length : Lengths]
    /\ ctl = [total_sectors |-> 0, secsize |-> 0,
              offset |-> opt.offset, length |-> opt.length]
    /\ pc = "main"
    /\ status = "running"
    /\ error = "none"
    /\ warnings = 0
    /\ opens = 0
    /\ closes = 0
    /\ zonesize = 0
    /\ za = [sector |-> 0, nr_sectors |-> 0]
    /\ resetCalls = << >>
    /\ zi = [sector |-> 0, nr_zones |-> 0, zones |-> << >>]
    /\ reportCalls = << >>
    /\ i = 0
    /\ reads = << >>
    /\ lookups = << >>
    /\ out = << >>

\* err()/errx(EXIT_FAILURE, msg): print and exit, nothing else is run
Die(msg) ==
    /\ pc' = "exit"
    /\ status' = "EXIT_FAILURE"
    /\ error' = msg

Continue(next) ==
    /\ pc' = next
    /\ UNCHANGED << status, error >>

name_to_command(name) ==
    IF \E k \in 1..Len(commands) : commands[k] = name THEN name ELSE "NULL"

\* main: look the command up and call its handler
Main ==
    /\ pc = "main"
    /\ IF name_to_command(cmdName) = "NULL"
          THEN Die("is not valid command name")
          ELSE Continue(IF cmdName = "report" THEN "report_init" ELSE "reset_chunk")
    /\ UNCHANGED << cmdName, opt, ctl, warnings, opens, closes, zonesize, za,
                    resetCalls, zi, reportCalls, i, reads, lookups, out >>

\* init_device: open, fstat, S_ISBLK, total sectors, sector size
init_device(next) ==
    \E outcome \in {"open", "fstat", "notblk", "sectors", "secsize", "ok"},
       sectors \in Totals :
        /\ opens' = IF outcome = "open" THEN opens ELSE opens + 1
        /\ ctl' = IF outcome \in {"secsize", "ok"}
                     THEN [ctl EXCEPT !.total_sectors = sectors,
                                      !.secsize = IF outcome = "ok" THEN 512 ELSE 0]
                     ELSE ctl
        /\ CASE outcome = "open"    -> Die("cannot open")
             [] outcome = "fstat"   -> Die("stat failed")
             [] outcome = "notblk"  -> Die("not a block device")
             [] outcome = "sectors" -> Die("blkdev_get_sectors ioctl failed")
             [] outcome = "secsize" -> Die("BLKSSZGET ioctl failed")
             [] OTHER               -> Continue(next)

(* --------------------------- blkzone report ---------------------------- *)
ReportInit ==
    /\ pc = "report_init"
    /\ init_device("report_check")
    /\ UNCHANGED << cmdName, opt, warnings, closes, zonesize, za, resetCalls,
                    zi, reportCalls, i, reads, lookups, out >>

ReportLengthNoClamp(len) == IF len < 1 THEN 1 ELSE len

\* the zone count blkzone_report asks for, from ctl->length
ReportLength(len) ==
    IF len < 1 THEN 1
    ELSE IF len > MAX_REPORT_LEN THEN MAX_REPORT_LEN
    ELSE len

\* blkzone_report: offset check, length normalisation, buffer set-up
ReportPrepare ==
    /\ pc = "report_check"
    /\ IF ctl.offset > ctl.total_sectors
          THEN /\ Die("offset is greater than device size")
               /\ UNCHANGED << ctl, warnings, zi >>
          ELSE /\ ctl' = [ctl EXCEPT !.length = ReportLength(ctl.length)]
               /\ warnings' = IF (IF ctl.length < 1 THEN 1 ELSE ctl.length) > MAX_REPORT_LEN
                                 THEN warnings + 1 ELSE warnings
               /\ zi' = [sector |-> ctl.offset, nr_zones |-> ctl'.length, zones |-> << >>]
               /\ Continue("report_ioctl")
    /\ UNCHANGED << cmdName, opt, opens, closes, zonesize, za, resetCalls,
                    reportCalls, i, reads, lookups, out >>

\* ioctl(BLKREPORTZONE): the device fills at most nr_zones descriptors and
\* stores the number it filled in nr_zones
ReportIoctl ==
    /\ pc = "report_ioctl"
    /\ reportCalls' = Append(reportCalls, [sector |-> zi.sector, nr_zones |-> zi.nr_zones])
    /\ \/ /\ Die("BLKREPORTZONE ioctl failed")
          /\ UNCHANGED << zi, i >>
       \/ /\ \E zones \in SeqsUpTo(Descriptors, Min(zi.nr_zones, MaxReturned)) :
                 zi' = [zi EXCEPT !.nr_zones = Len(zones), !.zones = zones]
          /\ i' = 0
          /\ Continue("report_loop")
    /\ UNCHANGED << cmdName, opt, ctl, warnings, opens, closes, zonesize, za,
                    resetCalls, reads, lookups, out >>

\* the index blkzone_report uses into condition_str[]
CondIndex(cond) == BitAnd(cond, ARRAY_SIZE(condition_str))

\* the index blkzone_report uses into type_text[]
TypeIndex(type) == type

\* arr[k] in C: the element when k is inside the array, whatever lies behind
\* the array otherwise
Element(arr, k) == IF k < ARRAY_SIZE(arr) THEN arr[k + 1] ELSE "<out of bounds>"

\* one turn of the for loop of blkzone_report
ReportLoop ==
    /\ pc = "report_loop"
    /\ IF i < zi.nr_zones
          THEN LET entry == zi.zones[i + 1] IN
               /\ reads' = Append(reads, i)
               /\ IF entry.len = 0
                     THEN /\ Continue("report_close")
                          /\ UNCHANGED << i, lookups, out >>
                     ELSE /\ lookups' = Append(lookups, [cond |-> CondIndex(entry.cond),
                                                         type |-> TypeIndex(entry.type)])
                          /\ \/ /\ out' = Append(out,
                                        [len |-> entry.len,
                                         cond |-> entry.cond,
                                         mnemonic |-> Element(condition_str, CondIndex(entry.cond)),
                                         type |-> entry.type,
                                         name |-> Element(type_text, TypeIndex(entry.type))])
                                /\ i' = i + 1
                                /\ Continue("report_loop")
                             \/ \* a read behind a table may hand printf a wild pointer
                                /\ \/ CondIndex(entry.cond) >= ARRAY_SIZE(condition_str)
                                   \/ TypeIndex(entry.type) >= ARRAY_SIZE(type_text)
                                /\ pc' = "exit"
                                /\ status' = "SIGSEGV"
                                /\ UNCHANGED << error, i, out >>
          ELSE /\ Continue("report_close")
               /\ UNCHANGED << i, reads, lookups, out >>
    /\ UNCHANGED << cmdName, opt, ctl, warnings, opens, closes, zonesize, za,
                    resetCalls, zi, reportCalls >>

CloseSkipped ==
    /\ closes' = closes
    /\ pc' = "exit"
    /\ status' = "EXIT_SUCCESS"
    /\ UNCHANGED error

\* close(fd); return 0; and main returns EXIT_SUCCESS
CloseAndReturn ==
    /\ closes' = closes + 1
    /\ pc' = "exit"
    /\ status' = "EXIT_SUCCESS"
    /\ UNCHANGED error

ReportClose ==
    /\ pc = "report_close"
    /\ CloseAndReturn
    /\ UNCHANGED << cmdName, opt, ctl, warnings, opens, zonesize, za, resetCalls,
                    zi, reportCalls, i, reads, lookups, out >>

(* ---------------------------- blkzone reset ---------------------------- *)
\* blkdev_chunk_sectors: queue/chunk_sectors of the whole disk, 0 on failure
blkdev_chunk_sectors(sysfsInitFailed, rc, sz) ==
    IF sysfsInitFailed THEN 0
    ELSE IF rc = 0 THEN sz ELSE 0

ResetChunkSectorsUnchecked ==
    /\ pc = "reset_chunk"
    /\ \E sysfsInitFailed \in BOOLEAN, rc \in {0, -1}, sz \in ChunkSectors :
           zonesize' = blkdev_chunk_sectors(sysfsInitFailed, rc, sz)
    /\ Continue("reset_init")
    /\ UNCHANGED << cmdName, opt, ctl, warnings, opens, closes, za, resetCalls,
                    zi, reportCalls, i, reads, lookups, out >>

\* blkzone_reset: the zone size, or the end when it is unknown
ResetChunkSectors ==
    /\ pc = "reset_chunk"
    /\ \E sysfsInitFailed \in BOOLEAN, rc \in {0, -1}, sz \in ChunkSectors :
           zonesize' = blkdev_chunk_sectors(sysfsInitFailed, rc, sz)
    /\ IF zonesize' = 0
          THEN Die("unable to determine zone size")
          ELSE Continue("reset_init")
    /\ UNCHANGED << cmdName, opt, ctl, warnings, opens, closes, za, resetCalls,
                    zi, reportCalls, i, reads, lookups, out >>

ResetInit ==
    /\ pc = "reset_init"
    /\ init_device("reset_check")
    /\ UNCHANGED << cmdName, opt, warnings, closes, zonesize, za, resetCalls,
                    zi, reportCalls, i, reads, lookups, out >>

\* the alignment test of blkzone_reset
Misaligned(offset, zs) == MaskBelow(offset, zs) # 0

ResetZlenClampAlways(offset, length, zs, total) == total - length

\* zlen of blkzone_reset
ResetZlen(offset, length, zs, total) ==
    LET zlen == length * zs
    IN  IF U64Gt(offset + zlen, total) THEN total - length ELSE zlen

\* blkzone_reset: alignment and offset checks, then the range to reset
ResetRange ==
    /\ pc = "reset_check"
    /\ IF Misaligned(ctl.offset, zonesize)
          THEN /\ Die("is not aligned to zone size")
               /\ UNCHANGED za
          ELSE IF ctl.offset > ctl.total_sectors
          THEN /\ Die("offset is greater than device size")
               /\ UNCHANGED za
          ELSE /\ za' = [sector |-> ctl.offset,
                         nr_sectors |-> ResetZlen(ctl.offset, ctl.length, zonesize,
                                                  ctl.total_sectors)]
               /\ Continue("reset_ioctl")
    /\ UNCHANGED << cmdName, opt, ctl, warnings, opens, closes, zonesize, resetCalls,
                    zi, reportCalls, i, reads, lookups, out >>

\* ioctl(BLKRESETZONE)
ResetIoctl ==
    /\ pc = "reset_ioctl"
    /\ resetCalls' = Append(resetCalls, za)
    /\ \/ Die("BLKRESETZONE ioctl failed")
       \/ Continue("reset_close")
    /\ UNCHANGED << cmdName, opt, ctl, warnings, opens, closes, zonesize, za,
                    zi, reportCalls, i, reads, lookups, out >>

ResetClose ==
    /\ pc = "reset_close"
    /\ CloseAndReturn
    /\ UNCHANGED << cmdName, opt, ctl, warnings, opens, zonesize, za, resetCalls,
                    zi, reportCalls, i, reads, lookups, out >>

Next ==
    \/ Main
    \/ ReportInit
    \/ ReportPrepare
    \/ ReportIoctl
    \/ ReportLoop
    \/ ReportClose
    \/ ResetChunkSectors
    \/ ResetInit
    \/ ResetRange
    \/ ResetIoctl
    \/ ResetClose

Spec == Init /\ [][Next]_vars

(* ------------------------------ claims --------------------------------- *)
ReportIssued == cmdName = "report" /\ Len(reportCalls) > 0

\* C1: report with length 0 behaves as report with length 4096: the zone
\* count passed to BLKREPORTZONE is DEF_REPORT_LEN, as it is for length 4096.
C1_ZeroLengthIsDefault ==
    (ReportIssued /\ opt.length = 0) =>
        /\ reportCalls[1].nr_zones = DEF_REPORT_LEN
        /\ ctl.length = ReportLength(DEF_REPORT_LEN)

\* C2: every index used to look the condition mnemonic up lies inside
\* condition_str, whatever condition byte the device returned.
C2_CondIndexInTable ==
    \A k \in 1..Len(lookups) : lookups[k].cond < ARRAY_SIZE(condition_str)

\* C10: every index used to look the type name up lies inside type_text,
\* whatever type byte the device returned.
C10_TypeIndexInTable ==
    \A k \in 1..Len(lookups) : lookups[k].type < ARRAY_SIZE(type_text)

\* reset got as far as its alignment test
ResetAlignChecked ==
    /\ cmdName = "reset"
    /\ \/ pc \in {"reset_ioctl", "reset_close"}
       \/ /\ pc = "exit"
          /\ error \in {"is not aligned to zone size", "offset is greater than device size",
                        "BLKRESETZONE ioctl failed", "none"}

\* C3: for every zone size > 0, reset of an offset that is no multiple of the
\* zone size fails as misaligned without issuing BLKRESETZONE, and an offset
\* that is a multiple of the zone size is never rejected as misaligned.
C3_MisalignedIffNotMultiple ==
    ResetAlignChecked =>
        /\ (ctl.offset % zonesize # 0) =>
               (error = "is not aligned to zone size" /\ resetCalls = << >>)
        /\ (ctl.offset % zonesize = 0) => error # "is not aligned to zone size"

\* C4: every BLKRESETZONE request ends inside the device:
\* sector + nr_sectors <= total_sectors.
C4_ResetEndWithinDevice ==
    \A k \in 1..Len(resetCalls) :
        /\ resetCalls[k].nr_sectors >= 0
        /\ resetCalls[k].sector + resetCalls[k].nr_sectors <= ctl.total_sectors

\* reset passed its validation: zone size known, device opened, offset
\* accepted as aligned and inside the device
ResetValidated ==
    /\ cmdName = "reset"
    /\ \/ pc \in {"reset_ioctl", "reset_close"}
       \/ pc = "exit" /\ error \in {"BLKRESETZONE ioctl failed", "none"}

ResetFits == opt.offset + opt.length * zonesize <= ctl.total_sectors

\* C5: a reset that passed validation and whose range offset + length*zonesize
\* fits the device issues BLKRESETZONE exactly once, with sector = offset and
\* nr_sectors = length * zonesize; no reset issues it more than once.
C5_ResetExactRange ==
    /\ Len(resetCalls) <= 1
    /\ (ResetValidated /\ ResetFits) =>
           /\ za = [sector |-> opt.offset, nr_sectors |-> opt.length * zonesize]
           /\ resetCalls = IF pc = "reset_ioctl" THEN << >> ELSE << za >>

C5_Witness ==
    /\ cmdName = "reset" /\ status = "EXIT_SUCCESS"
    /\ ResetFits /\ opt.offset > 0 /\ opt.length > 0
    /\ resetCalls = << [sector |-> opt.offset, nr_sectors |-> opt.length * zonesize] >>

\* the device answered BLKREPORTZONE
ReportAnswered ==
    ReportIssued /\ error # "BLKREPORTZONE ioctl failed"

\* index of the first descriptor of length 0, the number of descriptors without one
FirstZeroLen(zones) ==
    IF \E k \in 1..Len(zones) : zones[k].len = 0
       THEN (CHOOSE k \in 1..Len(zones) :
                 zones[k].len = 0 /\ \A j \in 1..(k - 1) : zones[j].len # 0) - 1
       ELSE Len(zones)

\* C6: the loop of report reads the descriptors in device order, reads none at
\* an index >= the normalised length, formats none at or after the first of
\* length 0, and the invocation prints min(count returned, index of the first
\* descriptor of length 0) zone lines.
C6_ReportLoopBounds ==
    ReportAnswered =>
        /\ \A k \in 1..Len(reads) : reads[k] = k - 1 /\ reads[k] < ctl.length
        /\ Len(out) <= Min(zi.nr_zones, FirstZeroLen(zi.zones))
        /\ pc = "exit" => Len(out) = Min(zi.nr_zones, FirstZeroLen(zi.zones))

\* report went through its length normalisation
ReportPrepared ==
    /\ cmdName = "report"
    /\ pc \in {"report_ioctl", "report_loop", "report_close"} \/ ReportIssued

\* C7: report with length > 65536 asks the device for 65536 zones, as length
\* 65536 does, emits exactly one warning and goes on; with length <= 65536 no
\* warning is emitted.
C7_ClampedWithOneWarning ==
    /\ opt.length <= MAX_REPORT_LEN => warnings = 0
    /\ (cmdName = "report" /\ opt.length > MAX_REPORT_LEN) =>
           /\ ReportLength(opt.length) = ReportLength(MAX_REPORT_LEN)
           /\ warnings = IF ReportPrepared THEN 1 ELSE 0
           /\ ReportPrepared => ctl.length = MAX_REPORT_LEN
           /\ pc = "report_ioctl" =>
                  (status = "running" /\ zi.nr_zones = MAX_REPORT_LEN)
           /\ \A k \in 1..Len(reportCalls) : reportCalls[k].nr_zones = MAX_REPORT_LEN

C7_Witness ==
    /\ cmdName = "report" /\ opt.length > MAX_REPORT_LEN
    /\ status = "EXIT_SUCCESS" /\ warnings = 1 /\ Len(out) > 0

\* C8: when the zone size cannot be determined (the query gives 0), reset
\* ends in failure at once: the device is never opened, its geometry never
\* read, no later check made and BLKRESETZONE never issued.
C8_UnknownZoneSizeFailsFirst ==
    (cmdName = "reset" /\ pc \notin {"main", "reset_chunk"} /\ zonesize = 0) =>
        /\ pc = "exit"
        /\ status = "EXIT_FAILURE"
        /\ error = "unable to determine zone size"
        /\ opens = 0
        /\ ctl.total_sectors = 0
        /\ resetCalls = << >>

C8_Witness ==
    /\ cmdName = "reset" /\ pc = "exit" /\ zonesize = 0
    /\ error = "unable to determine zone size"

\* C9 as stated: on every exit after a successful open the program has closed
\* the device handle itself, and at most one handle is ever open.
C9_ClosedOnEveryExit ==
    /\ opens <= 1
    /\ (pc = "exit" /\ opens > 0) => closes = opens

\* C9 as amended: at most one handle is ever open; the program closes it
\* itself exactly on the exit that returns success, and every failing exit
\* after a successful open leaves it open for the process exit to release.
C9_ClosedExactlyOnSuccess ==
    /\ opens <= 1
    /\ closes <= opens
    /\ (pc = "exit" /\ opens = 1) => (closes = 1 <=> status = "EXIT_SUCCESS")
    /\ (pc = "exit" /\ status = "EXIT_SUCCESS") => (opens = 1 /\ closes = 1)

C9_Witness ==
    /\ pc = "exit" /\ opens = 1 /\ closes = 0
    /\ error = "BLKRESETZONE ioctl failed"

====
